---------------------------- MODULE Spec2Model ----------------------------
(***************************************************************************)
(* Rusty Pong (src/src/main.rs, ball.rs, paddle.rs, rectangle.rs).         *)
(*                                                                         *)
(* Number representation.  The program computes in f32.                    *)
(*  - Lengths are fixed point, in units of 1/GAME_FRAMERATE pixel, and     *)
(*    velocities in the same unit per second, so that a displacement       *)
(*    v * dt is v / GAME_FRAMERATE, rounded to the nearest unit (ties to   *)
(*    even, as IEEE does).                                                 *)
(*  - start_timer is the one quantity whose sign test depends on the last  *)
(*    bit: it is kept in units of 2^-29 s, in which 1.0, fl(1/60) and      *)
(*    every value the countdown takes are exact, and each subtraction is   *)
(*    rounded to 24 significant bits as an f32 subtraction is.             *)
(*  - dt is counted in frames of 1/GAME_FRAMERATE s (the game loop always  *)
(*    passes 1).                                                           *)
(***************************************************************************)
EXTENDS Integers, Sequences, FiniteSets, TLC

VARIABLES left_paddle, right_paddle, ball, pressed_keys, pc

vars == <<left_paddle, right_paddle, ball, pressed_keys, pc>>

---------------------------------------------------------------------------
(* Program constants                                                       *)

GAME_WIDTH == 1280
GAME_HEIGHT == 720
GAME_FRAMERATE == 60
SCORE_TO_WIN == 10

BALL_WIDTH == 15
BALL_HEIGHT == 15
BALL_BOUNCE_SPEEDUP_NUM == 115
BALL_BOUNCE_SPEEDUP_DEN == 100
BALL_STARTING_SPEED == 500
BALL_ANGLE_FACTOR == 10
START_TIMER_SECONDS == 1

KEYBOARD_SPEED == 500
PADDLE_WIDTH == 20
PADDLE_HEIGHT == 100
PADDLE_MARGIN == 25

---------------------------------------------------------------------------
(* Arithmetic                                                              *)

Abs(n) == IF n < 0 THEN -n ELSE n

\* a / b for b > 0, rounded to the nearest integer, ties to even.
DivRound(a, b) ==
    LET q == a \div b
        r == a % b
    IN  IF 2 * r < b THEN q
        ELSE IF 2 * r > b THEN q + 1
        ELSE IF q % 2 = 0 THEN q ELSE q + 1

\* A length or a speed given in pixels, in model units.
Px(n) == n * GAME_FRAMERATE

\* x / 2.0 on a length.
Half(n) == DivRound(n, 2)

\* One second in start_timer units (2^-29 s).
TimerOne == 2 ^ 29

\* The spacing of f32 values around a magnitude a (in start_timer units):
\* below 2^24 units every integer is an f32 value.
RECURSIVE F32Quantum(_)
F32Quantum(a) == IF a < 2 ^ 24 THEN 1 ELSE 2 * F32Quantum(a \div 2)

\* The subtraction carried out exactly, as in a wider float type.
F32Round_exact(n) == n

\* Rounding of an exact result to f32 (nearest, ties to even).
F32Round(n) ==
    LET q == F32Quantum(Abs(n))
        m == DivRound(Abs(n), q) * q
    IN  IF n < 0 THEN -m ELSE m

\* The f32 value of dt frames: frame_time = 1.0 / frame_rate (main.rs:150).
F32Dt(dt) == F32Round(DivRound(TimerOne * dt, GAME_FRAMERATE))

\* v * dt as a displacement.
MulDt(v, dt) == DivRound(v * dt, GAME_FRAMERATE)

---------------------------------------------------------------------------
(* rectangle.rs                                                            *)

Rectangle(x, y, width, height) ==
    [x |-> x, y |-> y, width |-> width, height |-> height]

\* intersects with the first comparison strict.
Intersects_strict_left(self, other) ==
    /\ self.x < other.x + other.width
    /\ self.x + self.width >= other.x
    /\ self.y <= other.y + other.height
    /\ self.y + self.height >= other.y

Intersects(self, other) ==
    /\ self.x <= other.x + other.width
    /\ self.x + self.width >= other.x
    /\ self.y <= other.y + other.height
    /\ self.y + self.height >= other.y

---------------------------------------------------------------------------
(* main.rs: UpdateParams                                                   *)

UpdateParams(dt) ==
    [dt |-> dt, game_width |-> Px(GAME_WIDTH), game_height |-> Px(GAME_HEIGHT)]

\* The parameters run_game_loop builds each frame.
FrameParams == UpdateParams(1)

---------------------------------------------------------------------------
(* paddle.rs                                                               *)

Paddle_new(x, y) ==
    [bounds |-> Rectangle(x - Half(Px(PADDLE_WIDTH)), y - Half(Px(PADDLE_HEIGHT)),
                          Px(PADDLE_WIDTH), Px(PADDLE_HEIGHT)),
     score |-> 0]

\* The key test as an if / else if chain: Up wins over Down.
Paddle_vy_up_first(keys) ==
    IF "Up" \in keys THEN -Px(KEYBOARD_SPEED)
    ELSE IF "Down" \in keys THEN Px(KEYBOARD_SPEED)
    ELSE 0

Paddle_vy(keys) ==
    (IF "Up" \in keys THEN -Px(KEYBOARD_SPEED) ELSE 0)
    + (IF "Down" \in keys THEN Px(KEYBOARD_SPEED) ELSE 0)

\* The clamp testing the top edge against the bottom of the arena.
Paddle_clamp_top_edge(y, height, game_height) ==
    IF y < 0 THEN 0
    ELSE IF y > game_height THEN game_height - height
    ELSE y

Paddle_clamp(y, height, game_height) ==
    IF y < 0 THEN 0
    ELSE IF y + height > game_height THEN game_height - height
    ELSE y

Paddle_update(self, params, keys) ==
    LET y1 == self.bounds.y + MulDt(Paddle_vy(keys), params.dt)
    IN  [self EXCEPT !.bounds.y =
            Paddle_clamp(y1, self.bounds.height, params.game_height)]

---------------------------------------------------------------------------
(* ball.rs                                                                 *)

\* Ball_reset_timer_kept is the reset that leaves start_timer as it finds it.
\* rnd is what the two draws of rand::thread_rng() return in reset:
\* rnd.right is rng.gen(), rnd.vy is rng.gen_range(-500, 500).
Ball_reset_timer_kept(self, x, y, rnd) ==
    [self EXCEPT
        !.bounds.x = x - Half(self.bounds.width),
        !.bounds.y = y - Half(self.bounds.height),
        !.vx = IF rnd.right THEN Px(BALL_STARTING_SPEED) ELSE -Px(BALL_STARTING_SPEED),
        !.vy = rnd.vy]

Ball_reset(self, x, y, rnd) ==
    [self EXCEPT
        !.bounds.x = x - Half(self.bounds.width),
        !.bounds.y = y - Half(self.bounds.height),
        !.vx = IF rnd.right THEN Px(BALL_STARTING_SPEED) ELSE -Px(BALL_STARTING_SPEED),
        !.vy = rnd.vy,
        !.start_timer = START_TIMER_SECONDS * TimerOne]

Ball_new(x, y, rnd) ==
    Ball_reset([bounds |-> Rectangle(0, 0, Px(BALL_WIDTH), Px(BALL_HEIGHT)),
                vx |-> 0, vy |-> 0, start_timer |-> 0],
               x, y, rnd)

\* The integration step run whether or not the timer has elapsed.
Ball_move_always(self, params) ==
    [self EXCEPT
        !.start_timer = IF @ > 0 THEN F32Round(@ - F32Dt(params.dt)) ELSE @,
        !.bounds.x = @ + MulDt(self.vx, params.dt),
        !.bounds.y = @ + MulDt(self.vy, params.dt)]

\* The countdown counting up.
Ball_move_count_up(self, params) ==
    IF self.start_timer > 0
    THEN [self EXCEPT !.start_timer = F32Round(@ + F32Dt(params.dt))]
    ELSE [self EXCEPT !.bounds.x = @ + MulDt(self.vx, params.dt),
                      !.bounds.y = @ + MulDt(self.vy, params.dt)]

\* update, lines 56-61: the countdown, or the integration step.
Ball_move(self, params) ==
    IF self.start_timer > 0
    THEN [self EXCEPT !.start_timer = F32Round(@ - F32Dt(params.dt))]
    ELSE [self EXCEPT !.bounds.x = @ + MulDt(self.vx, params.dt),
                      !.bounds.y = @ + MulDt(self.vy, params.dt)]

\* The reflection without the speed-up.
Bounce_vx_reflect_only(vx) == -vx

\* The bounce dividing by the speed-up factor where the code multiplies.
Bounce_vx_divided(vx) == -DivRound(BALL_BOUNCE_SPEEDUP_DEN * vx, BALL_BOUNCE_SPEEDUP_NUM)

Bounce_vx(vx) == -DivRound(BALL_BOUNCE_SPEEDUP_NUM * vx, BALL_BOUNCE_SPEEDUP_DEN)

\* The collision reflecting vy as it reflects vx, not recomputing it.
check_paddle_collision_vy_reflected(self, paddle) ==
    IF Intersects(paddle.bounds, self.bounds)
    THEN [self EXCEPT
            !.bounds.x = IF self.vx < 0
                         THEN paddle.bounds.x + paddle.bounds.width
                         ELSE paddle.bounds.x - self.bounds.width,
            !.vx = Bounce_vx(self.vx),
            !.vy = -self.vy]
    ELSE self

\* The collision reflecting the ball where it is, without the snap.
check_paddle_collision_no_snap(self, paddle) ==
    IF Intersects(paddle.bounds, self.bounds)
    THEN [self EXCEPT
            !.vx = Bounce_vx(self.vx),
            !.vy = (self.bounds.y - paddle.bounds.y) * BALL_ANGLE_FACTOR]
    ELSE self

check_paddle_collision(self, paddle) ==
    IF Intersects(paddle.bounds, self.bounds)
    THEN [self EXCEPT
            !.bounds.x = IF self.vx < 0
                         THEN paddle.bounds.x + paddle.bounds.width
                         ELSE paddle.bounds.x - self.bounds.width,
            !.vx = Bounce_vx(self.vx),
            !.vy = (self.bounds.y - paddle.bounds.y) * BALL_ANGLE_FACTOR]
    ELSE self

\* The wall check with < and > for <= and >=.
check_wall_collision_strict(self, params) ==
    IF self.bounds.y < 0 \/ self.bounds.y + self.bounds.height > params.game_height
    THEN [self EXCEPT !.vy = -self.vy]
    ELSE self

check_wall_collision(self, params) ==
    IF self.bounds.y <= 0 \/ self.bounds.y + self.bounds.height >= params.game_height
    THEN [self EXCEPT !.vy = -self.vy]
    ELSE self

\* check_goal crediting both paddles when the ball leaves by the right.
check_goal_both(self, params, left, right, rnd) ==
    IF self.bounds.x <= 0
    THEN [ball  |-> Ball_reset(self, Half(params.game_width), Half(params.game_height), rnd),
          left  |-> left,
          right |-> [right EXCEPT !.score = @ + 1]]
    ELSE IF self.bounds.x + self.bounds.width >= params.game_width
    THEN [ball  |-> Ball_reset(self, Half(params.game_width), Half(params.game_height), rnd),
          left  |-> [left EXCEPT !.score = @ + 1],
          right |-> [right EXCEPT !.score = @ + 1]]
    ELSE [ball |-> self, left |-> left, right |-> right]

\* check_goal crediting the goal to the paddle on the side the ball left by.
check_goal_swapped(self, params, left, right, rnd) ==
    IF self.bounds.x <= 0
    THEN [ball  |-> Ball_reset(self, Half(params.game_width), Half(params.game_height), rnd),
          left  |-> [left EXCEPT !.score = @ + 1],
          right |-> right]
    ELSE IF self.bounds.x + self.bounds.width >= params.game_width
    THEN [ball  |-> Ball_reset(self, Half(params.game_width), Half(params.game_height), rnd),
          left  |-> left,
          right |-> [right EXCEPT !.score = @ + 1]]
    ELSE [ball |-> self, left |-> left, right |-> right]

\* check_goal testing the ball's left edge against both goal lines.
check_goal_left_edge(self, params, left, right, rnd) ==
    IF self.bounds.x <= 0
    THEN [ball  |-> Ball_reset(self, Half(params.game_width), Half(params.game_height), rnd),
          left  |-> left,
          right |-> [right EXCEPT !.score = @ + 1]]
    ELSE IF self.bounds.x >= params.game_width
    THEN [ball  |-> Ball_reset(self, Half(params.game_width), Half(params.game_height), rnd),
          left  |-> [left EXCEPT !.score = @ + 1],
          right |-> right]
    ELSE [ball |-> self, left |-> left, right |-> right]

\* Returns the ball and both paddles, since check_goal mutates all three.
check_goal(self, params, left, right, rnd) ==
    IF self.bounds.x <= 0
    THEN [ball  |-> Ball_reset(self, Half(params.game_width), Half(params.game_height), rnd),
          left  |-> left,
          right |-> [right EXCEPT !.score = @ + 1]]
    ELSE IF self.bounds.x + self.bounds.width >= params.game_width
    THEN [ball  |-> Ball_reset(self, Half(params.game_width), Half(params.game_height), rnd),
          left  |-> [left EXCEPT !.score = @ + 1],
          right |-> right]
    ELSE [ball |-> self, left |-> left, right |-> right]

\* update checking the left paddle twice: the ball snapped to the paddle's
\* face still touches it, and intersects counts touching.
Ball_before_goal_twice(self, params, left, right) ==
    check_wall_collision(
        check_paddle_collision(
            check_paddle_collision(
                check_paddle_collision(Ball_move(self, params), left),
                left),
            right),
        params)

\* The ball as check_goal receives it: after the move and the three checks
\* of update, lines 56-66.
Ball_before_goal(self, params, left, right) ==
    check_wall_collision(
        check_paddle_collision(
            check_paddle_collision(Ball_move(self, params), left),
            right),
        params)

Ball_update(self, params, left, right, rnd) ==
    check_goal(Ball_before_goal(self, params, left, right), params, left, right, rnd)

---------------------------------------------------------------------------
(* main.rs: Game                                                           *)

\* has_winner with > for >=.
has_winner_strict(left, right) ==
    left.score > SCORE_TO_WIN \/ right.score > SCORE_TO_WIN

\* has_winner looking at the left score only.
has_winner_left_only(left, right) ==
    left.score >= SCORE_TO_WIN

has_winner(left, right) ==
    left.score >= SCORE_TO_WIN \/ right.score >= SCORE_TO_WIN

\* Game::update without the call of right_paddle.update.
Game_update_left_only(b, left, right, keys, params, rnd) ==
    IF ~has_winner(left, right)
    THEN Ball_update(b, params, Paddle_update(left, params, keys), right, rnd)
    ELSE [ball |-> b, left |-> left, right |-> right]

\* Game::update on the simulation state; returns ball, left, right.
Game_update(b, left, right, keys, params, rnd) ==
    IF ~has_winner(left, right)
    THEN Ball_update(b, params,
                     Paddle_update(left, params, keys),
                     Paddle_update(right, params, keys), rnd)
    ELSE [ball |-> b, left |-> left, right |-> right]

\* Window and keyboard events as poll_events matches them.
Event(type, key) == [type |-> type, key |-> key]

IsExitEvent(e) ==
    e.type = "Closed" \/ (e.type = "Pressed" /\ e.key = "Escape")

\* poll_events over the events evs queued since the last frame: the keys
\* held afterwards and whether an exit was requested.  The loop over the
\* events returns at the first exit event.
RECURSIVE poll_events(_, _)
poll_events(keys, evs) ==
    IF evs = <<>> THEN [exit |-> FALSE, keys |-> keys]
    ELSE LET e == Head(evs)
         IN  IF IsExitEvent(e) THEN [exit |-> TRUE, keys |-> keys]
             ELSE IF e.type = "Pressed" THEN poll_events(keys \cup {e.key}, Tail(evs))
             ELSE IF e.type = "Released" THEN poll_events(keys \ {e.key}, Tail(evs))
             ELSE poll_events(keys, Tail(evs))

---------------------------------------------------------------------------
(* The environment: the bounded sets the inputs are drawn from             *)

\* At most this many window events are queued between two frames.
MaxEventsPerPoll == 1

\* Under Spec the game is followed until this many goals have been scored.
MaxGoals == 2

\* VirtualKeyCode: the two keys the paddles read, Escape, and one other key.
Keys == {"Up", "Down", "Escape", "W"}

Events ==
    {Event("Closed", "None"), Event("Resized", "None")}
    \cup {Event(t, k) : t \in {"Pressed", "Released"}, k \in Keys}

RECURSIVE SeqsUpTo(_, _)
SeqsUpTo(S, n) ==
    IF n = 0 THEN {<<>>}
    ELSE LET shorter == SeqsUpTo(S, n - 1)
         IN  shorter \cup {Append(s, e) : s \in shorter, e \in S}

EventSeqs == SeqsUpTo(Events, MaxEventsPerPoll)

\* Serve draws of rng.gen_range(-500, 500), in pixels per second.
ServeVyPx == {-500, -294, 0, 250}

Rnd == [right : BOOLEAN, vy : {Px(v) : v \in ServeVyPx}]

\* The draws of the long match of SpecMatch.
MatchRnd == [right : BOOLEAN, vy : {Px(250)}]

\* The frame in which a serve starts: start_timer still has its full value.
ServeFrame == ball.start_timer = START_TIMER_SECONDS * TimerOne

\* The environment acts (window events arrive, render may fail) only in a
\* serve frame; in every other frame the event queue is empty.
Delivered == IF ServeFrame THEN EventSeqs ELSE {<<>>}

---------------------------------------------------------------------------
(* The state machine                                                       *)

\* Game::new, lines 99-116.
Game_new(rnd) ==
    [left  |-> Paddle_new(Px(PADDLE_MARGIN), Half(Px(GAME_HEIGHT))),
     right |-> Paddle_new(Px(GAME_WIDTH) - Px(PADDLE_MARGIN), Half(Px(GAME_HEIGHT))),
     ball  |-> Ball_new(Half(Px(GAME_WIDTH)), Half(Px(GAME_HEIGHT)), rnd)]

InitWith(R) ==
    \E rnd \in R :
        LET g == Game_new(rnd)
        IN  /\ left_paddle = g.left
            /\ right_paddle = g.right
            /\ ball = g.ball
            /\ pressed_keys = {}
            /\ pc = "running"

\* The exit request honoured at the end of the iteration, after update.
LoopExit_after_update(evs) ==
    LET pe == poll_events(pressed_keys, evs)
        g  == Game_update(ball, left_paddle, right_paddle, pe.keys, FrameParams,
                          CHOOSE rnd \in MatchRnd : TRUE)
    IN  /\ pc = "running"
        /\ pe.exit
        /\ pressed_keys' = pe.keys
        /\ left_paddle' = g.left
        /\ right_paddle' = g.right
        /\ ball' = g.ball
        /\ pc' = "exited"

\* One iteration of run_game_loop in which poll_events reports an exit: the
\* loop breaks before update and render.
LoopExit(evs) ==
    LET pe == poll_events(pressed_keys, evs)
    IN  /\ pc = "running"
        /\ pe.exit
        /\ pressed_keys' = pe.keys
        /\ pc' = "exited"
        /\ UNCHANGED <<left_paddle, right_paddle, ball>>

\* The update of one iteration of run_game_loop that goes on past poll_events.
LoopUpdate(evs, rnd) ==
    LET pe == poll_events(pressed_keys, evs)
        g  == Game_update(ball, left_paddle, right_paddle, pe.keys, FrameParams, rnd)
    IN  /\ pc = "running"
        /\ ~pe.exit
        /\ pressed_keys' = pe.keys
        /\ left_paddle' = g.left
        /\ right_paddle' = g.right
        /\ ball' = g.ball

\* A whole iteration: poll_events, update, render returning Ok, sleep.
LoopFrame(evs, rnd) ==
    /\ LoopUpdate(evs, rnd)
    /\ pc' = "running"

\* An iteration whose render returns an error: `?` returns it from the loop.
LoopRenderError(evs, rnd) ==
    /\ LoopUpdate(evs, rnd)
    /\ pc' = "error"

Init == InitWith(Rnd)

Horizon == left_paddle.score + right_paddle.score < MaxGoals

\* The draws that can matter in this frame: reset runs only on a goal.
Draws(R, evs) ==
    LET keys == poll_events(pressed_keys, evs).keys
        b == Ball_before_goal(ball, FrameParams,
                              Paddle_update(left_paddle, FrameParams, keys),
                              Paddle_update(right_paddle, FrameParams, keys))
    IN  IF /\ ~has_winner(left_paddle, right_paddle)
           /\ \/ b.bounds.x <= 0
              \/ b.bounds.x + b.bounds.width >= FrameParams.game_width
        THEN R
        ELSE {CHOOSE rnd \in R : TRUE}

Frame == Horizon /\ \E evs \in Delivered : \E rnd \in Draws(Rnd, evs) : LoopFrame(evs, rnd)

Exit == \E evs \in Delivered : LoopExit(evs)

RenderError ==
    /\ Horizon
    /\ ServeFrame
    /\ \E evs \in Delivered : \E rnd \in Draws(Rnd, evs) : LoopRenderError(evs, rnd)

Next == Frame \/ Exit \/ RenderError

Spec == Init /\ [][Next]_vars

---------------------------------------------------------------------------
(* SpecMatch: a whole match, first serve to winner.  Nobody touches the    *)
(* keys until there is a winner, so the paddles stay where Game::new put   *)
(* them; every serve draws the same vertical speed in either direction.    *)

InitMatch == InitWith(MatchRnd)

\* Before there is a winner only an exit request can arrive, in a serve frame.
MatchDelivered ==
    IF has_winner(left_paddle, right_paddle) THEN EventSeqs
    ELSE IF ServeFrame THEN {evs \in EventSeqs : evs = <<>> \/ poll_events({}, evs).exit}
    ELSE {<<>>}

MatchFrame ==
    \E evs \in MatchDelivered : \E rnd \in Draws(MatchRnd, evs) : LoopFrame(evs, rnd)

MatchExit == \E evs \in MatchDelivered : LoopExit(evs)

MatchRenderError ==
    /\ ServeFrame
    /\ \E evs \in MatchDelivered : \E rnd \in Draws(MatchRnd, evs) : LoopRenderError(evs, rnd)

NextMatch == MatchFrame \/ MatchExit \/ MatchRenderError

SpecMatch == InitMatch /\ [][NextMatch]_vars

---------------------------------------------------------------------------
(* SpecPaddle: Paddle::update on its own, as Game::update calls it on both *)
(* paddles, for every set of held keys and for time steps other than the   *)
(* game loop's.                                                            *)

\* Paddle::update is tried with dt from 0 to this many frame times.
MaxDt == 3

\* The sets pressed_keys can be: poll_events never inserts Escape.
KeySets == SUBSET (Keys \ {"Escape"})

PaddleStep ==
    \E keys \in KeySets, dt \in 0..MaxDt :
        /\ pc = "running"
        /\ pressed_keys' = keys
        /\ left_paddle' = Paddle_update(left_paddle, UpdateParams(dt), keys)
        /\ right_paddle' = Paddle_update(right_paddle, UpdateParams(dt), keys)
        /\ UNCHANGED <<ball, pc>>

SpecPaddle == InitMatch /\ [][PaddleStep]_vars

---------------------------------------------------------------------------
(* SpecWall: check_wall_collision on its own, on balls at and around the   *)
(* two walls, frozen or moving.  pc is the position in Ball::update: at    *)
(* the call, then past it.                                                 *)

\* The ball's top edge is tried up to this many units on either side of the
\* places where it meets the top wall and where its bottom edge meets the
\* bottom wall.
WallRange == 2

WallVyPx == {-300, 0, 250}

WallBalls ==
    {[b EXCEPT !.bounds.y = y, !.vy = Px(vy), !.start_timer = t] :
        b \in {Game_new(rnd).ball : rnd \in MatchRnd},
        y \in {w + d : w \in {0, Px(GAME_HEIGHT) - Px(BALL_HEIGHT)},
                       d \in (-WallRange)..WallRange},
        vy \in WallVyPx,
        t \in {TimerOne, -F32Dt(1)}}

InitWall ==
    /\ ball \in WallBalls
    /\ \E rnd \in MatchRnd :
        /\ left_paddle = Game_new(rnd).left
        /\ right_paddle = Game_new(rnd).right
    /\ pressed_keys = {}
    /\ pc = "check_wall"

WallStep ==
    /\ pc = "check_wall"
    /\ ball' = check_wall_collision(ball, FrameParams)
    /\ pc' = "check_goal"
    /\ UNCHANGED <<left_paddle, right_paddle, pressed_keys>>

SpecWall == InitWall /\ [][WallStep]_vars

---------------------------------------------------------------------------
(* SpecGeom: Rectangle::intersects as check_paddle_collision uses it, on   *)
(* small rectangles in every relative position: apart, touching along an   *)
(* edge or at a corner, overlapping, one inside the other, and with zero   *)
(* width or height.                                                        *)

\* Widths and heights go from 0 to GeomRange; the second rectangle's corner
\* ranges over the positions around the first.
GeomRange == 2

PaddleRects ==
    {Rectangle(0, 0, w, h) : w \in 0..GeomRange, h \in 0..GeomRange}

BallRects ==
    {Rectangle(x, y, w, h) :
        x \in (-GeomRange - 1)..(GeomRange + 1),
        y \in (-GeomRange - 1)..(GeomRange + 1),
        w \in 0..GeomRange, h \in 0..GeomRange}

\* The serves the ball arrives with: either direction, rising or falling.
GeomRnd == [right : BOOLEAN, vy : {-Px(BALL_STARTING_SPEED), Px(250)}]

InitGeom ==
    /\ \E rnd \in GeomRnd, a \in PaddleRects, b \in BallRects :
        /\ left_paddle = [Game_new(rnd).left EXCEPT !.bounds = a]
        /\ right_paddle = Game_new(rnd).right
        /\ ball = [Ball_move(Game_new(rnd).ball, FrameParams) EXCEPT !.bounds = b]
    /\ pressed_keys = {}
    /\ pc = "check_left_paddle"

GeomStep ==
    /\ pc = "check_left_paddle"
    /\ ball' = check_paddle_collision(ball, left_paddle)
    /\ pc' = "check_right_paddle"
    /\ UNCHANGED <<left_paddle, right_paddle, pressed_keys>>

SpecGeom == InitGeom /\ [][GeomStep]_vars

---------------------------------------------------------------------------
(* Properties                                                              *)

\* A step in which Game::update ran Paddle::update and Ball::update: the
\* loop went on past poll_events and there was no winner.
Updated ==
    /\ pc = "running"
    /\ pc' # "exited"
    /\ left_paddle.score < SCORE_TO_WIN
    /\ right_paddle.score < SCORE_TO_WIN

\* The ball as the goal check of this step's Ball::update receives it (the
\* paddles it was checked against are the updated ones).
SeenByGoalCheck == Ball_before_goal(ball, FrameParams, left_paddle', right_paddle')

ServePosition(b) ==
    /\ 2 * b.bounds.x = Px(GAME_WIDTH) - Px(BALL_WIDTH)
    /\ 2 * b.bounds.y = Px(GAME_HEIGHT) - Px(BALL_HEIGHT)

\* C1 (goal effect): in every Ball::update whose goal check sees the ball's
\* left edge <= 0 the right score goes up by exactly 1 and the left score
\* stays; when instead the right edge is >= game_width the left score goes up
\* by exactly 1 and the right score stays; in both cases the ball ends the
\* update centred in the arena with start_timer = 1.0.
C1_GoalEffect ==
    [][Updated =>
        LET b == SeenByGoalCheck
            leftGoal == b.bounds.x <= 0
            rightGoal == ~leftGoal /\ b.bounds.x + b.bounds.width >= Px(GAME_WIDTH)
        IN  /\ leftGoal =>
                /\ right_paddle'.score = right_paddle.score + 1
                /\ left_paddle'.score = left_paddle.score
            /\ rightGoal =>
                /\ left_paddle'.score = left_paddle.score + 1
                /\ right_paddle'.score = right_paddle.score
            /\ (leftGoal \/ rightGoal) =>
                /\ ServePosition(ball')
                /\ ball'.start_timer = TimerOne
    ]_vars

\* C1 witness: each side has scored once and the ball has just been put back
\* for the serve.
C1_Witness ==
    /\ left_paddle.score = 1
    /\ right_paddle.score = 1
    /\ ServePosition(ball)
    /\ ball.start_timer = TimerOne

\* C2 (win freeze): once a score is >= SCORE_TO_WIN no step changes a
\* paddle (position, score) or the ball (position, velocity, start_timer),
\* whatever keys are pressed; so no step leads back to a state without a winner.
C2_WinFreeze ==
    [][(left_paddle.score >= SCORE_TO_WIN \/ right_paddle.score >= SCORE_TO_WIN) =>
        /\ left_paddle' = left_paddle
        /\ right_paddle' = right_paddle
        /\ ball' = ball
    ]_vars

\* C2 witness: there is a winner, the loop is still running and a paddle key
\* is held.
C2_Witness ==
    /\ right_paddle.score = SCORE_TO_WIN
    /\ pc = "running"
    /\ "Up" \in pressed_keys

PaddleInArena(p) ==
    /\ 0 <= p.bounds.y
    /\ p.bounds.y <= Px(GAME_HEIGHT) - Px(PADDLE_HEIGHT)

\* C3 (paddle clamp): after every Paddle::update, for any set of pressed keys
\* and any dt >= 0, 0 <= y <= game_height - paddle_height, for both paddles.
C3_PaddleClamp == PaddleInArena(left_paddle) /\ PaddleInArena(right_paddle)

\* C3 witness: Paddle::update has run with Up held and the clamp has stopped
\* the paddle at the top; likewise a state at the bottom exists with Down.
C3_Witness ==
    /\ "Up" \in pressed_keys
    /\ "Down" \notin pressed_keys
    /\ left_paddle.bounds.y = 0
    /\ right_paddle.bounds.y = 0

\* C4 (frozen ball does not move): every Ball::update that starts with
\* start_timer > 0 leaves bounds.x and bounds.y as they were, whatever the
\* velocity and the paddles' positions; the checks that still run do not
\* move the ball.
C4_FrozenBallStill ==
    [][(Updated /\ ball.start_timer > 0) =>
        /\ ball'.bounds.x = ball.bounds.x
        /\ ball'.bounds.y = ball.bounds.y
    ]_vars

\* C4 witness: the countdown has run at least once and is not over, the ball
\* has a velocity, and the paddles have left their first position.
C4_Witness ==
    /\ 0 < ball.start_timer
    /\ ball.start_timer < TimerOne
    /\ ball.vx # 0
    /\ ball.vy # 0
    /\ left_paddle.bounds.y = 0

\* C5 (score monotonicity): both scores start at 0; no step lowers a score;
\* a step changes at most one of them, by exactly +1; Paddle::update leaves
\* the score of the paddle it is called on unchanged.
C5_ScoreMonotone ==
    /\ left_paddle.score = 0
    /\ right_paddle.score = 0
    /\ [][LET dl == left_paddle'.score - left_paddle.score
              dr == right_paddle'.score - right_paddle.score
          IN  /\ <<dl, dr>> \in {<<0, 0>>, <<1, 0>>, <<0, 1>>}
              /\ Paddle_update(left_paddle, FrameParams, pressed_keys').score
                    = left_paddle.score
              /\ Paddle_update(right_paddle, FrameParams, pressed_keys').score
                    = right_paddle.score
       ]_vars

\* C5 witness: both scores have gone up.
C5_Witness ==
    /\ left_paddle.score = 1
    /\ right_paddle.score = 1
    /\ pc = "running"

\* The ball of this step's Ball::update after lines 56-61.
Moved == Ball_move(ball, FrameParams)

ScoresUnchanged ==
    /\ left_paddle'.score = left_paddle.score
    /\ right_paddle'.score = right_paddle.score

\* C6 (paddle bounce speed-up): in every Ball::update in which the ball meets
\* a paddle after the integration step and no goal is scored, vx at the end
\* is -1.15 times vx at the start (to the nearest unit): the sign flips, the
\* magnitude strictly grows, and the bounce is applied once, not twice.
C6_BounceSpeedUp ==
    [][(/\ Updated
        /\ ScoresUnchanged
        /\ \/ Intersects(left_paddle'.bounds, Moved.bounds)
           \/ Intersects(right_paddle'.bounds, Moved.bounds)) =>
        /\ 2 * Abs(BALL_BOUNCE_SPEEDUP_DEN * ball'.vx + BALL_BOUNCE_SPEEDUP_NUM * ball.vx)
              <= BALL_BOUNCE_SPEEDUP_DEN
        /\ (ball.vx < 0) = (ball'.vx > 0)
        /\ (ball.vx > 0) = (ball'.vx < 0)
        /\ Abs(ball'.vx) > Abs(ball.vx)
    ]_vars

\* C6 witness: the ball has just been returned by the left paddle: flush with
\* its face, at 1.15 times the serve speed, towards the right.
C6_Witness ==
    /\ ball.bounds.x = left_paddle.bounds.x + left_paddle.bounds.width
    /\ 100 * ball.vx = 115 * Px(BALL_STARTING_SPEED)
    /\ left_paddle.score = 0
    /\ right_paddle.score = 0

\* C7 (ball state machine): a step takes the ball from Moving (start_timer
\* <= 0) to Frozen (start_timer > 0) only if a score goes up in that step,
\* and start_timer increases in no other way; a step takes it from Frozen to
\* Moving only by an update subtracting dt from start_timer.
C7_BallTransitions ==
    [][LET scored == \/ left_paddle'.score > left_paddle.score
                     \/ right_paddle'.score > right_paddle.score
       IN  /\ (ball.start_timer <= 0 /\ ball'.start_timer > 0) => scored
           /\ ball'.start_timer > ball.start_timer => scored
           /\ (ball.start_timer > 0 /\ ball'.start_timer <= 0) =>
                /\ Updated
                /\ GAME_FRAMERATE * (ball.start_timer - ball'.start_timer)
                      \in (TimerOne - GAME_FRAMERATE)..(TimerOne + GAME_FRAMERATE)
    ]_vars

\* C7 witness: a goal has frozen the ball and the countdown has then set it
\* moving again.
C7_Witness ==
    /\ left_paddle.score + right_paddle.score = 1
    /\ ball.start_timer <= 0
    /\ ~ServePosition(ball)

\* C8 (wall check effect): check_wall_collision negates vy exactly when the
\* ball's top edge is <= 0 or its bottom edge is >= game_height and leaves
\* vy as it is otherwise; it never changes the position, vx or start_timer.
C8_WallCheck ==
    [][pc = "check_wall" =>
        /\ ball'.vy =
              IF \/ ball.bounds.y <= 0
                 \/ ball.bounds.y + Px(BALL_HEIGHT) >= Px(GAME_HEIGHT)
              THEN 0 - ball.vy
              ELSE ball.vy
        /\ ball'.bounds = ball.bounds
        /\ ball'.vx = ball.vx
        /\ ball'.start_timer = ball.start_timer
    ]_vars

\* C8 witness: the wall check has run on a ball whose top edge was at y = 0
\* and which moved up at 300: it now moves down at 300 (the draws of
\* WallVyPx hold no +300, so only the check gives it).
C8_Witness ==
    /\ pc = "check_goal"
    /\ ball.bounds.y = 0
    /\ ball.vy = Px(300)

SimUnchanged ==
    /\ left_paddle' = left_paddle
    /\ right_paddle' = right_paddle
    /\ ball' = ball

HasWinner ==
    left_paddle.score >= SCORE_TO_WIN \/ right_paddle.score >= SCORE_TO_WIN

\* C9 (loop termination): the loop leaves "running" only for "exited" (an
\* exit request) or "error" (render failed) and takes no step afterwards;
\* the iteration that ends on an exit request runs neither update nor
\* render, so it leaves the simulation as it was; a winner does not end the
\* loop: the step that produces a winner is no exit, and with a winner and
\* an empty event queue the next iteration can still run.
C9_LoopTermination ==
    [][/\ pc = "running"
       /\ pc' \in {"running", "exited", "error"}
       /\ pc' = "exited" => SimUnchanged
       /\ (HasWinner' /\ ~HasWinner) => pc' # "exited"
       /\ HasWinner => ENABLED (\E rnd \in MatchRnd : LoopFrame(<<>>, rnd))
    ]_vars

\* C9 witness: the loop has ended on an exit request made after the match
\* was won.
C9_Witness ==
    /\ pc = "exited"
    /\ left_paddle.score = SCORE_TO_WIN

\* Two rectangles that share boundary points only: an edge of one lies on
\* the line of the facing edge of the other and their extents along that
\* line meet.
Touching(a, b) ==
    LET meetX == a.x <= b.x + b.width /\ b.x <= a.x + a.width
        meetY == a.y <= b.y + b.height /\ b.y <= a.y + a.height
    IN  \/ (a.x + a.width = b.x \/ b.x + b.width = a.x) /\ meetY
        \/ (a.y + a.height = b.y \/ b.y + b.height = a.y) /\ meetX

\* C10 (intersection symmetry): for rectangles A and B of non-negative width
\* and height A.intersects(B) = B.intersects(A), and rectangles that only
\* touch along an edge or at a corner intersect in both directions.
C10_IntersectsSymmetric ==
    LET a == left_paddle.bounds
        b == ball.bounds
    IN  /\ Intersects(a, b) = Intersects(b, a)
        /\ Touching(a, b) => (Intersects(a, b) /\ Intersects(b, a))

\* C10 witness: check_paddle_collision has found a ball that touched the
\* paddle at a corner only and has returned it.
C10_Witness ==
    /\ pc = "check_right_paddle"
    /\ left_paddle.bounds = Rectangle(0, 0, 1, 1)
    /\ ball.bounds = Rectangle(1, 1, 1, 1)
    /\ 100 * Abs(ball.vx) = 115 * Px(BALL_STARTING_SPEED)

\* The condition of check_wall_collision on a ball: top edge <= 0 or bottom
\* edge >= game_height.
AtWall(b) ==
    \/ b.bounds.y <= 0
    \/ b.bounds.y + b.bounds.height >= Px(GAME_HEIGHT)

\* C11 (wall overlap lasts one frame): if a moving ball ends a tick with its
\* top edge <= 0 or its bottom edge >= game_height, then at the end of the
\* next tick in which it moves it is no longer so: the wall check does not
\* fire on two consecutive ticks of a moving ball.
C11_WallOverlapOneFrame ==
    [][(/\ Updated
        /\ ball.start_timer <= 0
        /\ AtWall(ball)
        /\ ball'.start_timer <= 0) =>
        ~AtWall(ball')
    ]_vars

\* Two rectangles that intersect over a horizontal extent greater than 0.
OverlapsAcross(a, b) ==
    /\ Intersects(a, b)
    /\ a.x < b.x + b.width
    /\ b.x < a.x + a.width

\* This step's Ball::update found the ball on the paddle, left or right.
HitLeft == Intersects(left_paddle'.bounds, Moved.bounds)

HitRight ==
    Intersects(right_paddle'.bounds,
               check_paddle_collision(Moved, left_paddle').bounds)

\* C12 (no ball/paddle overlap after a tick): at the end of every
\* Ball::update the ball's rectangle overlaps neither paddle's rectangle over
\* a positive horizontal extent; after a paddle collision the ball is flush
\* with the paddle's facing edge: ball.x = paddle.x + paddle.width when it
\* was moving left, ball.x + ball.width = paddle.x when it was moving right.
C12_NoOverlapAfterTick ==
    [][Updated =>
        /\ ~OverlapsAcross(left_paddle'.bounds, ball'.bounds)
        /\ ~OverlapsAcross(right_paddle'.bounds, ball'.bounds)
        /\ HitLeft /\ ball.vx < 0 =>
              ball'.bounds.x = left_paddle'.bounds.x + left_paddle'.bounds.width
        /\ HitLeft /\ ball.vx > 0 =>
              ball'.bounds.x + ball'.bounds.width = left_paddle'.bounds.x
        /\ HitRight /\ ball.vx < 0 =>
              ball'.bounds.x = right_paddle'.bounds.x + right_paddle'.bounds.width
        /\ HitRight /\ ball.vx > 0 =>
              ball'.bounds.x + ball'.bounds.width = right_paddle'.bounds.x
    ]_vars

\* C12 witness: the right paddle has just returned the ball, which lies
\* flush against its face.
C12_Witness ==
    /\ ball.bounds.x + ball.bounds.width = right_paddle.bounds.x
    /\ Intersects(right_paddle.bounds, ball.bounds)
    /\ ball.vx < 0
    /\ ball.start_timer <= 0

\* This step's update scored a goal.
Scored == ~ScoresUnchanged

\* C13 (goal reset overrides earlier changes of the same update): at the end
\* of any Ball::update in which a goal is scored, the velocity is a fresh
\* serve velocity (|vx| = 500, -500 <= vy <= 500) and start_timer is the
\* freeze duration, whatever paddle or wall collision happened earlier in
\* that update.
C13_GoalResetOverrides ==
    [][(Updated /\ Scored) =>
        /\ Abs(ball'.vx) = Px(BALL_STARTING_SPEED)
        /\ -Px(BALL_STARTING_SPEED) <= ball'.vy
        /\ ball'.vy <= Px(BALL_STARTING_SPEED)
        /\ ball'.start_timer = START_TIMER_SECONDS * TimerOne
    ]_vars

\* C13 witness: the ball is back on its serve after a goal of the left
\* player with both paddles held at the top wall, where a ball running along
\* the wall is turned by the wall check in the update that scores.
C13_Witness ==
    /\ left_paddle.score = 1
    /\ right_paddle.score = 0
    /\ left_paddle.bounds.y = 0
    /\ pressed_keys = {"Up"}
    /\ ServePosition(ball)
    /\ ball.start_timer = START_TIMER_SECONDS * TimerOne

\* The number of updates that have counted start_timer down since the last
\* reset, read off the timer: each of them took one frame_time from it.
FrozenTicks(b) == DivRound(START_TIMER_SECONDS * TimerOne - b.start_timer, F32Dt(1))

\* The ball lies where this step found it.
BallStill == ball'.bounds = ball.bounds

\* C14 as stated (serve delay): after a reset the ball stays at the serve
\* position during every update that starts with start_timer > 0, the one
\* in which start_timer first reaches <= 0 included; the first displacement
\* is in the following update, and with start_timer = 1.0 and dt = 1/60 that
\* is the update after exactly 60 still ticks.
C14_ServeDelay60 ==
    [][Updated =>
        /\ ball.start_timer > 0 => BallStill
        /\ FrozenTicks(ball) < GAME_FRAMERATE => BallStill
        /\ FrozenTicks(ball) = GAME_FRAMERATE => ~BallStill
    ]_vars

\* C14 amended (serve delay): as above, but the ball stays still for exactly
\* 61 ticks: 60 subtractions of the f32 value of 1/60 from 1.0 leave a
\* positive remainder, so the 61st update still starts with start_timer > 0
\* and the first displacement is in the 62nd.
C14_ServeDelay61 ==
    [][Updated =>
        /\ ball.start_timer > 0 => BallStill
        /\ FrozenTicks(ball) <= GAME_FRAMERATE =>
              (ball.start_timer > 0 /\ BallStill)
        /\ FrozenTicks(ball) = GAME_FRAMERATE => ball'.start_timer <= 0
        /\ (FrozenTicks(ball) = GAME_FRAMERATE + 1 /\ ServePosition(ball)) =>
              (ball.start_timer <= 0 /\ ~BallStill)
    ]_vars

\* C14 witness: after a goal the countdown has just run out and the ball
\* still lies at the serve position.
C14_Witness ==
    /\ left_paddle.score + right_paddle.score >= 1
    /\ ServePosition(ball)
    /\ ball.start_timer <= 0
    /\ FrozenTicks(ball) = GAME_FRAMERATE + 1

\* C15 (return angle): when check_paddle_collision finds the ball on the
\* paddle, the new vy is exactly (ball.y - paddle.y) * 10, measured between
\* the top edges and whatever vy was before; the collision leaves the ball's
\* y as it was.
C15_ReturnAngle ==
    [][(/\ pc = "check_left_paddle"
        /\ Intersects(left_paddle.bounds, ball.bounds)) =>
        /\ ball'.vy = (ball.bounds.y - left_paddle.bounds.y) * BALL_ANGLE_FACTOR
        /\ ball'.bounds.y = ball.bounds.y
    ]_vars

\* C15 witness: a ball that touched the paddle's lower right corner has been
\* returned, with vy set by the 2 units between the top edges.
C15_Witness ==
    /\ pc = "check_right_paddle"
    /\ left_paddle.bounds = Rectangle(0, 0, 2, 2)
    /\ ball.bounds = Rectangle(2, 2, 1, 1)
    /\ ball.vy = 2 * BALL_ANGLE_FACTOR
    /\ ball.vx > 0

\* What Paddle::update never writes: x, width, height and score.
PaddleFrame(p, q) ==
    /\ q.bounds.x = p.bounds.x
    /\ q.bounds.width = p.bounds.width
    /\ q.bounds.height = p.bounds.height
    /\ q.score = p.score

\* C16 (paddle input gating): Paddle::update with both Up and Down pressed,
\* or with neither, leaves a paddle whose y is within
\* [0, game_height - height] at the same y, whatever other keys are pressed
\* and whatever the time step; Paddle::update never changes x, width, height
\* or score.
C16_PaddleInputGating ==
    [][/\ (/\ ("Up" \in pressed_keys') = ("Down" \in pressed_keys')
           /\ PaddleInArena(left_paddle)
           /\ PaddleInArena(right_paddle)) =>
              /\ left_paddle'.bounds.y = left_paddle.bounds.y
              /\ right_paddle'.bounds.y = right_paddle.bounds.y
       /\ PaddleFrame(left_paddle, left_paddle')
       /\ PaddleFrame(right_paddle, right_paddle')
    ]_vars

\* C16 witness: Up, Down and another key are held and the paddles rest
\* away from where they started, at the bottom of the arena.
C16_Witness ==
    /\ pressed_keys = {"Up", "Down", "W"}
    /\ left_paddle.bounds.y = Px(GAME_HEIGHT) - Px(PADDLE_HEIGHT)
    /\ right_paddle.bounds.y = Px(GAME_HEIGHT) - Px(PADDLE_HEIGHT)

\* n is a value of u32: n < 2^32, written with numbers TLC can hold.
FitsU32(n) == n >= 0 /\ n \div (2 ^ 16) < 2 ^ 16

\* C17 (scores bounded): in every reachable state both scores are at most
\* SCORE_TO_WIN, at most one paddle has SCORE_TO_WIN points and the total is
\* at most 2 * SCORE_TO_WIN - 1, far below the range of u32.
C17_ScoresBounded ==
    /\ left_paddle.score \in 0..SCORE_TO_WIN
    /\ right_paddle.score \in 0..SCORE_TO_WIN
    /\ ~(left_paddle.score = SCORE_TO_WIN /\ right_paddle.score = SCORE_TO_WIN)
    /\ left_paddle.score + right_paddle.score <= 2 * SCORE_TO_WIN - 1
    /\ FitsU32(left_paddle.score + 1)
    /\ FitsU32(right_paddle.score + 1)

\* C17 witness: the closest match there is, won by the right player.
C17_Witness ==
    /\ right_paddle.score = SCORE_TO_WIN
    /\ left_paddle.score = SCORE_TO_WIN - 1
    /\ pc = "running"

\* C18 (the ball cannot skip over a paddle in one tick): in every tick in
\* which the right player scores, the ball's left edge at the start of the
\* tick was already at or behind the left paddle's right edge; in every tick
\* in which the left player scores, the ball's right edge at the start of
\* the tick was already at or behind the right paddle's left edge; after any
\* number of bounces.
C18_NoSkipOverPaddle ==
    [][Updated =>
        /\ right_paddle'.score > right_paddle.score =>
              ball.bounds.x <= left_paddle.bounds.x + left_paddle.bounds.width
        /\ left_paddle'.score > left_paddle.score =>
              ball.bounds.x + ball.bounds.width >= right_paddle.bounds.x
    ]_vars

\* C19 (paddles move in lock-step): both paddles read the same keys and
\* start at the same height, so left_paddle.bounds.y = right_paddle.bounds.y
\* in every reachable state.
C19_PaddlesLockStep ==
    left_paddle.bounds.y = right_paddle.bounds.y

\* C19 witness: with Down held through a rally both paddles are on their
\* way down, past their starting height and short of the bottom.
C19_Witness ==
    /\ pressed_keys = {"Down"}
    /\ 2 * left_paddle.bounds.y > Px(GAME_HEIGHT) - Px(PADDLE_HEIGHT)
    /\ left_paddle.bounds.y < Px(GAME_HEIGHT) - Px(PADDLE_HEIGHT)
    /\ right_paddle.bounds.y = left_paddle.bounds.y
    /\ left_paddle.score + right_paddle.score = 1

\* C20 (the ball ends every tick inside the arena horizontally): after
\* every Ball::update 0 < ball.x and ball.x + ball.width < game_width; the
\* same holds of the ball Game::new makes.
C20_BallInsideArena ==
    /\ 0 < ball.bounds.x
    /\ ball.bounds.x + ball.bounds.width < Px(GAME_WIDTH)

\* C20 witness: the ball lies one step short of the right goal line, behind
\* the right paddle's face, on its way out.
C20_Witness ==
    /\ ball.vx > 0
    /\ ball.start_timer <= 0
    /\ ball.bounds.x + ball.bounds.width > right_paddle.bounds.x + right_paddle.bounds.width
    /\ ball.bounds.x + ball.bounds.width + MulDt(ball.vx, 1) >= Px(GAME_WIDTH)

\* 500 * 1.15^k as a speed: the serve speed multiplied k times by 1.15, each
\* product rounded as the multiplication in check_paddle_collision rounds it.
RECURSIVE SpeedAfter(_)
SpeedAfter(k) ==
    IF k = 0 THEN Px(BALL_STARTING_SPEED)
    ELSE DivRound(BALL_BOUNCE_SPEEDUP_NUM * SpeedAfter(k - 1), BALL_BOUNCE_SPEEDUP_DEN)

\* The least k with 500 * 1.15^k >= speed v.
RECURSIVE BouncesFrom(_, _)
BouncesFrom(k, v) == IF SpeedAfter(k) >= v THEN k ELSE BouncesFrom(k + 1, v)

Bounces(b) == BouncesFrom(0, Abs(b.vx))

\* |vx| is 500 * 1.15^k for some k.
OnSpeedLadder(b) == Abs(b.vx) = SpeedAfter(Bounces(b))

\* C21 (horizontal speed never below the serve speed): in every reachable
\* state |vx| >= BALL_STARTING_SPEED, so vx is never 0, and
\* |vx| = 500 * 1.15^k with k the number of paddle bounces since the last
\* reset: k is 0 after a reset, one more after an update with a paddle
\* bounce and no goal, and the same after any other update.
C21_SpeedLadder ==
    [][Updated =>
        /\ Abs(ball.vx) >= Px(BALL_STARTING_SPEED)
        /\ Abs(ball'.vx) >= Px(BALL_STARTING_SPEED)
        /\ OnSpeedLadder(ball)
        /\ OnSpeedLadder(ball')
        /\ Scored => Bounces(ball') = 0
        /\ (~Scored /\ (HitLeft \/ HitRight)) => Bounces(ball') = Bounces(ball) + 1
        /\ (~Scored /\ ~HitLeft /\ ~HitRight) => ball'.vx = ball.vx
    ]_vars

\* C21 witness: the ball flies to the left after its second bounce, at
\* 500 * 1.15^2.
C21_Witness ==
    /\ Bounces(ball) = 2
    /\ OnSpeedLadder(ball)
    /\ ball.vx < 0
    /\ ball.start_timer <= 0

===========================================================================
